---- MODULE Spec2Model ----
(***************************************************************************)
(* Model of the shared-counter fragment of demonstrate_concurrency         *)
(* (src/language_demos/rust_demo.rs, lines 691-708):                        *)
(*                                                                         *)
(*   let counter = Arc::new(Mutex::new(0));                                *)
(*   let mut handles = vec![];                                             *)
(*   for _ in 0..10 {                                                      *)
(*       let counter = Arc::clone(&counter);                               *)
(*       let handle = thread::spawn(move || {                              *)
(*           let mut num = counter.lock().unwrap();                        *)
(*           *num += 1;                                                    *)
(*       });                                                               *)
(*       handles.push(handle);                                             *)
(*   }                                                                     *)
(*   for handle in handles { handle.join().unwrap(); }                     *)
(*   println!("Counter result: {}", *counter.lock().unwrap());             *)
(*                                                                         *)
(* Execution contexts: the coordinator (the thread running                 *)
(* demonstrate_concurrency) and one thread per loop iteration.  Every      *)
(* action is one step of one context; the threads interleave freely.       *)
(*                                                                         *)
(* Spec is the code as written.  Nothing in the worker closure can panic   *)
(* when the mutex starts unpoisoned and the counter starts at 0, so under  *)
(* Spec no worker ever fails.  FaultSpec adds WorkerPanic, an abnormal     *)
(* termination of a running worker, to exercise the code's three unwrap()  *)
(* calls; it is the only part not taken from the source.                   *)
(***************************************************************************)
EXTENDS Integers, Sequences, FiniteSets

\* Largest number of workers explored; the source's loop bound is 10
\* (for _ in 0..10), here every N in 0..MaxN is explored.
MaxN == 4

\* Identity of the coordinator as a lock holder; workers are 1..N.
Main == 0

VARIABLES
    N,          \* number of loop iterations of the spawn loop
    pc,         \* coordinator's position
    handles,    \* the Vec of JoinHandles, as the sequence of their workers
    consumed,   \* handles moved into join() whose join has returned
    results,    \* what each join() returned, in join order
    printed,    \* the values printed by "Counter result: {}"
    num,        \* the i32 inside the Mutex
    holder,     \* contexts that own a MutexGuard
    poisoned,   \* the Mutex's poison flag
    strong,     \* the Arc's strong count
    wpc,        \* each worker thread's position
    tmp,        \* the value each worker loaded for *num += 1
    lockres,    \* what each worker's lock() returned
    failcause,  \* why a failed worker failed
    finished    \* workers in the order their threads terminated

vars == <<N, pc, handles, consumed, results, printed, num, holder, poisoned,
          strong, wpc, tmp, lockres, failcause, finished>>

Workers == 1..N

TypeOK ==
    /\ N \in 0..MaxN
    /\ pc \in {"spawn", "join", "final_lock", "final_read", "final_unlock",
               "return", "done", "panicked"}
    /\ holder \subseteq (Workers \cup {Main})
    /\ poisoned \in BOOLEAN
    /\ num \in Int
    /\ strong \in 0..(N + 1)
    /\ consumed \subseteq Workers

\* Arc::new(Mutex::new(0)); let mut handles = vec![];
Init ==
    /\ N \in 0..MaxN
    /\ pc = "spawn"
    /\ handles = << >>
    /\ consumed = {}
    /\ results = << >>
    /\ printed = << >>
    /\ num = 0
    /\ holder = {}
    /\ poisoned = FALSE
    /\ strong = 1
    /\ wpc = [w \in 1..MaxN |-> "unspawned"]
    /\ tmp = [w \in 1..MaxN |-> 0]
    /\ lockres = [w \in 1..MaxN |-> "none"]
    /\ failcause = [w \in 1..MaxN |-> "none"]
    /\ finished = << >>

--------------------------------------------------------------------------
\* The coordinator

\* A push that puts the new handle at the front of the vector.
PushFront(v, h) == <<h>> \o v

\* Vec::push: the new handle goes to the back of the vector.
Push(v, h) == Append(v, h)

\* One iteration of `for _ in 0..10`: Arc::clone, thread::spawn, push.
\* The worker of the k-th iteration is named k.
Spawn ==
    /\ pc = "spawn"
    /\ Len(handles) < N
    /\ LET w == Len(handles) + 1 IN
        /\ strong' = strong + 1
        /\ wpc' = [wpc EXCEPT ![w] = "spawned"]
        /\ handles' = Push(handles, w)
    /\ UNCHANGED <<N, pc, consumed, results, printed, num, holder, poisoned,
                   tmp, lockres, failcause, finished>>

\* The range 0..10 is exhausted; handles is moved into the join loop.
SpawnLoopExit ==
    /\ pc = "spawn"
    /\ Len(handles) = N
    /\ pc' = "join"
    /\ UNCHANGED <<N, handles, consumed, results, printed, num, holder,
                   poisoned, strong, wpc, tmp, lockres, failcause, finished>>

\* `for handle in handles` yields the vector's elements front to back.
NextHandle(v) == Head(v)

\* The handles the iterator still owns after yielding NextHandle(v).
RestHandles(v) == Tail(v)

\* A join that returns without waiting for the thread.
TerminatedNoWait(w) == TRUE

\* Whether the thread behind a handle has terminated, so that join returns.
Terminated(w) == wpc[w] \in {"completed", "failed"}

\* JoinHandle::join's return value: Ok(()) or Err(panic payload).
JoinResult(w) == IF wpc[w] = "failed" THEN "Err" ELSE "Ok"

\* A join loop that discards join's result instead of unwrapping it.
JoinIgnoreErr ==
    /\ pc = "join"
    /\ handles # << >>
    /\ LET h == NextHandle(handles) IN
        /\ Terminated(h)
        /\ consumed' = consumed \cup {h}
        /\ results' = Append(results, [worker |-> h, outcome |-> JoinResult(h)])
        /\ handles' = RestHandles(handles)
    /\ UNCHANGED <<N, pc, printed, num, holder, poisoned, strong, wpc, tmp,
                   lockres, failcause, finished>>

\* handle.join().unwrap(): blocks until the thread has terminated; an Err
\* makes unwrap panic, which unwinds the coordinator: the remaining handles
\* are dropped unjoined and the coordinator's Arc is dropped.
Join ==
    /\ pc = "join"
    /\ handles # << >>
    /\ LET h == NextHandle(handles) IN
        /\ Terminated(h)
        /\ consumed' = consumed \cup {h}
        /\ results' = Append(results, [worker |-> h, outcome |-> JoinResult(h)])
        /\ IF JoinResult(h) = "Err"
           THEN /\ pc' = "panicked"
                /\ handles' = << >>
                /\ strong' = strong - 1
           ELSE /\ pc' = "join"
                /\ handles' = RestHandles(handles)
                /\ strong' = strong
    /\ UNCHANGED <<N, printed, num, holder, poisoned, wpc, tmp, lockres,
                   failcause, finished>>

\* The join loop has consumed every handle.
JoinLoopExit ==
    /\ pc = "join"
    /\ handles = << >>
    /\ pc' = "final_lock"
    /\ UNCHANGED <<N, handles, consumed, results, printed, num, holder,
                   poisoned, strong, wpc, tmp, lockres, failcause, finished>>

\* A lock that never blocks: what the code would be without the Mutex.
CanLockNoExclusion(c) == TRUE

\* Mutex::lock blocks while another context owns the guard.
CanLock(c) == holder = {}

\* counter.lock().unwrap() of line 708: a poisoned mutex makes unwrap panic
\* (the guard inside the PoisonError is dropped at once).
FinalLock ==
    /\ pc = "final_lock"
    /\ CanLock(Main)
    /\ IF poisoned
       THEN /\ pc' = "panicked"
            /\ holder' = holder
            /\ strong' = strong - 1
       ELSE /\ pc' = "final_read"
            /\ holder' = holder \cup {Main}
            /\ strong' = strong
    /\ UNCHANGED <<N, handles, consumed, results, printed, num, poisoned,
                   wpc, tmp, lockres, failcause, finished>>

\* println!("Counter result: {}", *guard): the value is read and printed.
FinalRead ==
    /\ pc = "final_read"
    /\ printed' = Append(printed, num)
    /\ pc' = "final_unlock"
    /\ UNCHANGED <<N, handles, consumed, results, num, holder, poisoned,
                   strong, wpc, tmp, lockres, failcause, finished>>

\* The temporary guard is dropped at the end of the println! statement.
FinalUnlock ==
    /\ pc = "final_unlock"
    /\ holder' = holder \ {Main}
    /\ pc' = "return"
    /\ UNCHANGED <<N, handles, consumed, results, printed, num, poisoned,
                   strong, wpc, tmp, lockres, failcause, finished>>

\* demonstrate_concurrency returns; its `counter` Arc is dropped.
Return ==
    /\ pc = "return"
    /\ strong' = strong - 1
    /\ pc' = "done"
    /\ UNCHANGED <<N, handles, consumed, results, printed, num, holder,
                   poisoned, wpc, tmp, lockres, failcause, finished>>

Coordinator ==
    \/ Spawn
    \/ SpawnLoopExit
    \/ Join
    \/ JoinLoopExit
    \/ FinalLock
    \/ FinalRead
    \/ FinalUnlock
    \/ Return

--------------------------------------------------------------------------
\* The workers

\* The spawned thread starts executing the closure.
WorkerStart(w) ==
    /\ wpc[w] = "spawned"
    /\ wpc' = [wpc EXCEPT ![w] = "lock"]
    /\ UNCHANGED <<N, pc, handles, consumed, results, printed, num, holder,
                   poisoned, strong, tmp, lockres, failcause, finished>>

\* A thread end that leaks the captured Arc clone.
TerminateLeaks(w, how) ==
    /\ wpc' = [wpc EXCEPT ![w] = how]
    /\ strong' = strong
    /\ finished' = Append(finished, w)

\* The end of a worker thread: its captured Arc clone is dropped and the
\* thread's result becomes available to join.
Terminate(w, how) ==
    /\ wpc' = [wpc EXCEPT ![w] = how]
    /\ strong' = strong - 1
    /\ finished' = Append(finished, w)

\* A lock() whose poison error is recovered from (into_inner) instead of
\* unwrapped.
WorkerLockIgnorePoison(w) ==
    /\ wpc[w] = "lock"
    /\ CanLock(w)
    /\ lockres' = [lockres EXCEPT ![w] = "Ok"]
    /\ holder' = holder \cup {w}
    /\ wpc' = [wpc EXCEPT ![w] = "load"]
    /\ UNCHANGED <<N, pc, handles, consumed, results, printed, num,
                   poisoned, strong, tmp, failcause, finished>>

\* let mut num = counter.lock().unwrap(): blocks until the mutex is free.
\* On a poisoned mutex lock() returns Err and unwrap panics: the guard
\* inside the error is dropped and the thread terminates abnormally.
WorkerLock(w) ==
    /\ wpc[w] = "lock"
    /\ CanLock(w)
    /\ IF poisoned
       THEN /\ lockres' = [lockres EXCEPT ![w] = "PoisonedLock"]
            /\ failcause' = [failcause EXCEPT ![w] = "PoisonedLock"]
            /\ holder' = holder
            /\ Terminate(w, "failed")
       ELSE /\ lockres' = [lockres EXCEPT ![w] = "Ok"]
            /\ failcause' = failcause
            /\ holder' = holder \cup {w}
            /\ wpc' = [wpc EXCEPT ![w] = "load"]
            /\ UNCHANGED <<strong, finished>>
    /\ UNCHANGED <<N, pc, handles, consumed, results, printed, num,
                   poisoned, tmp>>

\* *num += 1, first half: the current value is loaded through the guard.
WorkerLoad(w) ==
    /\ wpc[w] = "load"
    /\ tmp' = [tmp EXCEPT ![w] = num]
    /\ wpc' = [wpc EXCEPT ![w] = "store"]
    /\ UNCHANGED <<N, pc, handles, consumed, results, printed, num, holder,
                   poisoned, strong, lockres, failcause, finished>>

\* An increment that stores the loaded value back unchanged.
WorkerStoreStale(w) ==
    /\ wpc[w] = "store"
    /\ num' = tmp[w]
    /\ wpc' = [wpc EXCEPT ![w] = "unlock"]
    /\ UNCHANGED <<N, pc, handles, consumed, results, printed, holder,
                   poisoned, strong, tmp, lockres, failcause, finished>>

\* *num += 1, second half: the incremented value is stored.  The counter is
\* an i32 that starts at 0 and is incremented N times, far from overflow.
WorkerStore(w) ==
    /\ wpc[w] = "store"
    /\ num' = tmp[w] + 1
    /\ wpc' = [wpc EXCEPT ![w] = "unlock"]
    /\ UNCHANGED <<N, pc, handles, consumed, results, printed, holder,
                   poisoned, strong, tmp, lockres, failcause, finished>>

\* A closure end that leaks the guard (the mutex stays locked).
WorkerUnlockKeepsLock(w) ==
    /\ wpc[w] = "unlock"
    /\ wpc' = [wpc EXCEPT ![w] = "exit"]
    /\ UNCHANGED <<N, pc, handles, consumed, results, printed, num, holder,
                   poisoned, strong, tmp, lockres, failcause, finished>>

\* End of the closure body: the local guard `num` is dropped (unlock).
WorkerUnlock(w) ==
    /\ wpc[w] = "unlock"
    /\ holder' = holder \ {w}
    /\ wpc' = [wpc EXCEPT ![w] = "exit"]
    /\ UNCHANGED <<N, pc, handles, consumed, results, printed, num,
                   poisoned, strong, tmp, lockres, failcause, finished>>

\* A drop of the worker's clone that destroys the shared value, as if the
\* clone owned it.
WorkerExitResets(w) ==
    /\ wpc[w] = "exit"
    /\ num' = 0
    /\ Terminate(w, "completed")
    /\ UNCHANGED <<N, pc, handles, consumed, results, printed, holder,
                   poisoned, tmp, lockres, failcause>>

\* After the body's locals the closure's captured `counter` clone is
\* dropped, and the thread terminates normally.
WorkerExit(w) ==
    /\ wpc[w] = "exit"
    /\ Terminate(w, "completed")
    /\ UNCHANGED <<N, pc, handles, consumed, results, printed, num, holder,
                   poisoned, tmp, lockres, failcause>>

Worker(w) ==
    \/ WorkerStart(w)
    \/ WorkerLock(w)
    \/ WorkerLoad(w)
    \/ WorkerStore(w)
    \/ WorkerUnlock(w)
    \/ WorkerExit(w)

Next ==
    \/ Coordinator
    \/ \E w \in Workers : Worker(w)

Spec == Init /\ [][Next]_vars

\* The threads are preemptively scheduled OS threads: every context that
\* can take a step eventually does.
FairSpec ==
    /\ Spec
    /\ WF_vars(Coordinator)
    /\ \A w \in 1..MaxN : WF_vars(w \in Workers /\ Worker(w))

--------------------------------------------------------------------------
\* Abnormal termination of a worker

\* Whether a worker owns the guard (is inside its critical section).
InCritical(w) == wpc[w] \in {"load", "store", "unlock"}

\* A running worker panics.  Unwinding drops its guard if it has one, which
\* poisons the mutex (MutexGuard::drop while panicking), and its Arc clone.
WorkerPanic(w) ==
    /\ wpc[w] \in {"lock", "load", "store", "unlock"}
    /\ IF InCritical(w)
       THEN /\ poisoned' = TRUE
            /\ holder' = holder \ {w}
            /\ failcause' = [failcause EXCEPT ![w] = "PanicHoldingLock"]
       ELSE /\ poisoned' = poisoned
            /\ holder' = holder
            /\ failcause' = [failcause EXCEPT ![w] = "PanicBeforeLock"]
    /\ Terminate(w, "failed")
    /\ UNCHANGED <<N, pc, handles, consumed, results, printed, num, tmp,
                   lockres>>

FaultNext ==
    \/ Next
    \/ \E w \in Workers : WorkerPanic(w)

FaultSpec == Init /\ [][FaultNext]_vars

--------------------------------------------------------------------------
\* The handle of a worker, in the terms of the specification's state machine

HandleState(w) ==
    IF w \in consumed THEN "Consumed"
    ELSE CASE wpc[w] = "unspawned" -> "NotSpawned"
           [] wpc[w] = "spawned"   -> "Spawned"
           [] wpc[w] = "completed" -> "Completed"
           [] wpc[w] = "failed"    -> "Failed"
           [] OTHER                -> "Running"

--------------------------------------------------------------------------
\* Properties

\* The coordinator has passed the join loop.
AfterJoinAll == pc \in {"final_lock", "final_read", "final_unlock", "return", "done"}

\* The coordinator has performed the final read.
HasRead == pc \in {"final_unlock", "return", "done"}

\* C1: with N workers each incrementing once a counter that starts at 0,
\* the value the coordinator reads after joining all handles is exactly N,
\* whatever the interleaving of the workers.
C1_NoLostUpdates == HasRead => printed = <<N>>

\* The final read has happened with the largest N, the workers having
\* terminated in an order other than spawn order.
C1_Witness ==
    /\ pc = "done"
    /\ N = MaxN
    /\ printed = <<MaxN>>
    /\ finished # [k \in 1..N |-> k]

\* C2: at most one context owns the guard at any time, a context is
\* inside its critical section only while it is the owner, and the counter
\* changes only in a step of the owner.
C2_MutualExclusion ==
    /\ [](/\ Cardinality(holder) <= 1
          /\ \A w \in Workers : InCritical(w) => holder = {w}
          /\ pc \in {"final_read", "final_unlock"} => holder = {Main})
    /\ [][num' # num => \E w \in Workers : holder = {w} /\ wpc[w] = "store"]_vars

\* One worker is inside its critical section while another is blocked in
\* lock().
C2_Witness ==
    \E w, v \in Workers :
        /\ w # v
        /\ wpc[w] = "store"
        /\ holder = {w}
        /\ wpc[v] = "lock"

\* C3: the coordinator gets past the join loop, and so to the final read,
\* only when every spawned worker has terminated and every handle has been
\* joined; no worker is in a critical section then or later.
C3_JoinBarrier ==
    AfterJoinAll =>
        /\ Len(finished) = N
        /\ \A w \in Workers : Terminated(w) /\ w \in consumed /\ ~InCritical(w)

\* The coordinator is at the final read after joining at least two workers.
C3_Witness ==
    /\ pc = "final_read"
    /\ N >= 2
    /\ consumed = Workers

C8_Termination ==
    /\ [](pc # "done" => ENABLED Next)
    /\ <>[](/\ pc = "done"
            /\ printed # << >>
            /\ consumed = Workers
            /\ \A w \in Workers : Terminated(w))

\* The coordinator is blocked in join and a worker is blocked in lock()
\* while another worker is inside its critical section.
C8_Witness ==
    /\ pc = "join"
    /\ handles # << >>
    /\ ~Terminated(NextHandle(handles))
    /\ \E w, v \in Workers : wpc[w] = "lock" /\ holder = {v}

\* The transitions of a handle.
HandleTransitions ==
    { <<"NotSpawned", "Spawned">>, <<"Spawned", "Running">>,
      <<"Running", "Completed">>, <<"Running", "Failed">>,
      <<"Completed", "Consumed">>, <<"Failed", "Consumed">> }

\* C9: a handle changes state only along Spawned -> Running ->
\* {Completed, Failed} -> Consumed, it leaves Completed or Failed only in
\* the join of that handle, no handle is joined twice, and past the join
\* loop every handle has been joined.
C9_HandleStateMachine ==
    /\ [][\A w \in 1..MaxN :
            HandleState(w)' # HandleState(w) =>
                /\ <<HandleState(w), HandleState(w)'>> \in HandleTransitions
                /\ HandleState(w) \in {"Completed", "Failed"} =>
                      /\ pc = "join"
                      /\ NextHandle(handles) = w
                      /\ Len(results') = Len(results) + 1
                      /\ results'[Len(results')].worker = w]_vars
    /\ [](\A j, k \in DOMAIN results :
            results[j].worker = results[k].worker => j = k)
    /\ [](AfterJoinAll => /\ Len(results) = N
                          /\ \A w \in Workers : HandleState(w) = "Consumed")

\* Handles in three different states at once: one consumed, one completed
\* and not yet joined, one still running.
C9_Witness ==
    \E a, b, c \in Workers :
        /\ HandleState(a) = "Consumed"
        /\ HandleState(b) = "Completed"
        /\ HandleState(c) = "Running"

\* C10: the k-th join is the join of the k-th spawned worker and its
\* result is that worker's outcome, whatever the order of termination.
C10_JoinOrder ==
    \A k \in DOMAIN results :
        /\ results[k].worker = k
        /\ results[k].outcome = JoinResult(k)

\* All handles joined although the workers terminated in the reverse of
\* spawn order.
C10_Witness ==
    /\ AfterJoinAll
    /\ N = MaxN
    /\ Len(results) = N
    /\ finished = [k \in 1..N |-> N + 1 - k]

\* C11: a step that clones a handle or drops one (a change of the strong
\* count) leaves the value, the holder of the lock and the poison flag as
\* they were; the value the coordinator reads through the one remaining
\* handle is the value the container holds.
C11_CloneDropFrame ==
    /\ [][strong' # strong =>
             /\ num' = num
             /\ holder' = holder
             /\ poisoned' = poisoned]_vars
    /\ [](HasRead /\ strong = 1 => printed = <<num>>)

\* A clone has been dropped (its worker completed) and another has been
\* made and not yet used, while a third worker owns the guard and the
\* value is no longer the initial one.
C11_Witness ==
    \E a, b, c \in Workers :
        /\ wpc[a] = "completed"
        /\ wpc[b] = "store"
        /\ wpc[c] = "spawned"
        /\ holder = {b}
        /\ num >= 1
        /\ strong >= 3

\* The workers that have been spawned and have not terminated.
LiveWorkers == {w \in Workers : wpc[w] \notin {"unspawned", "completed", "failed"}}

Incremented == {w \in Workers : wpc[w] \in {"unlock", "exit", "completed"}}

\* C13: the counter is the number of workers that have stored their
\* increment, so it is within 0..N; it never decreases; and each worker's
\* store raises it by exactly 1 from the value it had, which is the value
\* the worker loaded.
C13_CounterCounts ==
    /\ [](num = Cardinality(Incremented) /\ num \in 0..N)
    /\ [][num' >= num]_vars
    /\ [][\A w \in 1..MaxN :
            wpc[w] = "store" /\ wpc'[w] = "unlock" =>
                num' = num + 1 /\ tmp[w] = num]_vars

\* A worker is about to store its increment on top of the two increments
\* of earlier critical sections, one of whose workers has not exited yet.
C13_Witness ==
    \E a, b \in Workers :
        /\ wpc[a] = "store"
        /\ tmp[a] = 2
        /\ num = 2
        /\ wpc[b] = "exit"

====
